---- MODULE Spec2Model ----
(***************************************************************************)
(* Model of mungegithub/mungers/mungers.go: the munger registry            *)
(* (mungerMap, mungers), activation (InitializeMungers), the per-cycle     *)
(* hook (EachLoop) and the per-item pipeline (MungeIssue).                 *)
(***************************************************************************)
EXTENDS Integers, Sequences, FiniteSets, TLC

\* ---------------------------------------------------------------- bounds
\* Distinct munger implementations that may carry the same Name().
MaxImpl == 2
\* Longest requestedMungers list handed to one InitializeMungers call.
MaxReq == 2
\* Longest active list the model lets the mungers slice grow to.
MaxActive == 3

\* Munger names in play and the items (issues) the caller passes in.
Names == {"a", "b"}
Items == {"i1", "i2"}

\* ------------------------------------------------------------ value sets
\* A PRMunger value: its Name() and which implementation it is.
PRMunger == [name : Names, impl : 1..MaxImpl]
\* The zero value a map lookup yields when the key is absent (found = false).
NoMunger == [name |-> "", impl |-> 0]

\* Go's nil error, and the error values the functions build or pass on.
NoErr == [kind |-> "nil", name |-> ""]
NotFoundErr(name) == [kind |-> "couldn't find a munger named", name |-> name]
DuplicateErr(name) == [kind |-> "a munger with that name already exists", name |-> name]
InitializeErr(munger) == [kind |-> "Initialize", name |-> munger.name]
EachLoopErr(munger) == [kind |-> "EachLoop", name |-> munger.name]
GetPRErr == [kind |-> "GetPR", name |-> ""]
GetFilledCommitsErr == [kind |-> "GetFilledCommits", name |-> ""]
GetAllEventsForPRErr == [kind |-> "GetAllEventsForPR", name |-> ""]
\* What a call "returns" when a nil pointer dereference panics inside it.
Panic == [kind |-> "panic: nil pointer dereference", name |-> ""]
\* Placeholder while a call has not returned.
NoRet == [kind |-> "running", name |-> ""]

\* *bool fields of a pull request: nil, or a pointer to false / true.
BoolPtr == {"nil", "false", "true"}
\* *github.PullRequest: the nil pointer, or a record with Merged and Mergeable.
NilPR == [isNil |-> TRUE, Merged |-> "nil", Mergeable |-> "nil"]
PullRequest == [isNil : {FALSE}, Merged : BoolPtr, Mergeable : BoolPtr]
\* The (pr, err) pairs config.GetPR can hand back.
GetPRResult == [pr : PullRequest \cup {NilPR}, err : {NoErr}]
                 \cup {[pr |-> NilPR, err |-> GetPRErr]}

\* One entry of an item's call log.
Call(c) == [call |-> c, munger |-> NoMunger]
MungeCall(munger) == [call |-> "MungePullRequest", munger |-> munger]

VARIABLES
  mungerMap,   \* var mungerMap: name -> PRMunger, NoMunger where absent
  mungers,     \* var mungers: the active list
  last,        \* the most recent call into the package: arguments, result, pre-state
  pc,          \* per item: where its MungeIssue call stands
  pr,          \* per item: MungeIssue's local pr
  err,         \* per item: MungeIssue's local err
  obj,         \* per item: the MungeObject fields PR, Commits, Events
  idx,         \* per item: position of the range loop over mungers
  ret,         \* per item: what MungeIssue returned
  fetched,     \* per item: the results of its GetPR calls, in order
  trace,       \* per item: every external call made for it, in order
  enriched,    \* per item: the errors its commit and event fetches returned
  okRun        \* while no InitializeMungers call has returned an error: the
               \* names requested and the Initialize calls made so far

vars == <<mungerMap, mungers, last, pc, pr, err, obj, idx, ret, fetched, trace,
          enriched, okRun>>
registry == <<mungerMap, mungers, last, okRun>>
calls == <<pc, pr, err, obj, idx, ret, fetched, trace, enriched>>

\* ------------------------------------------------------------- registry
\* GetAllMungers: every registered munger (map iteration, order not fixed).
GetAllMungers == {mungerMap[n] : n \in Names} \ {NoMunger}

\* GetActiveMungers: the active list as it stands.
GetActiveMungers == mungers

\* A RegisterMunger that reports the duplicate but stores it all the same.
RegisterResultOverwrite(map, munger) ==
  [map |-> [map EXCEPT ![munger.name] = munger],
   err |-> IF map[munger.name] # NoMunger
             THEN DuplicateErr(munger.name) ELSE NoErr]

\* RegisterMunger's effect on the table: [map, err].
RegisterResult(map, munger) ==
  IF map[munger.name] # NoMunger
    THEN [map |-> map, err |-> DuplicateErr(munger.name)]
    ELSE [map |-> [map EXCEPT ![munger.name] = munger], err |-> NoErr]

\* An InitializeMungers whose append comes before the found check: the zero
\* value of a failed lookup lands on the active list.
RECURSIVE InitializeLoopAppendFirst(_, _, _, _, _, _)
InitializeLoopAppendFirst(map, requestedMungers, fails, k, active, called) ==
  IF k > Len(requestedMungers)
    THEN [mungers |-> active, called |-> called, err |-> NoErr]
    ELSE LET name == requestedMungers[k]
             munger == map[name]
         IN IF munger = NoMunger
              THEN [mungers |-> Append(active, munger), called |-> called,
                    err |-> NotFoundErr(name)]
              ELSE IF fails[k]
                     THEN [mungers |-> Append(active, munger),
                           called |-> Append(called, munger),
                           err |-> InitializeErr(munger)]
                     ELSE InitializeLoopAppendFirst(map, requestedMungers,
                            fails, k + 1, Append(active, munger),
                            Append(called, munger))

\* An InitializeMungers that remembers the lookup failure but goes on with
\* the names after it, reporting the failure at the end.
RECURSIVE InitializeLoopKeepGoing(_, _, _, _, _, _)
InitializeLoopKeepGoing(map, requestedMungers, fails, k, active, called) ==
  IF k > Len(requestedMungers)
    THEN [mungers |-> active, called |-> called, err |-> NoErr]
    ELSE LET name == requestedMungers[k]
             munger == map[name]
         IN IF munger = NoMunger
              THEN [InitializeLoopKeepGoing(map, requestedMungers, fails,
                                            k + 1, active, called)
                      EXCEPT !.err = NotFoundErr(name)]
              ELSE IF fails[k]
                     THEN [mungers |-> Append(active, munger),
                           called |-> Append(called, munger),
                           err |-> InitializeErr(munger)]
                     ELSE InitializeLoopKeepGoing(map, requestedMungers,
                            fails, k + 1, Append(active, munger),
                            Append(called, munger))

\* An InitializeMungers that puts each munger at the front of the active
\* list.
RECURSIVE InitializeLoopPrepend(_, _, _, _, _, _)
InitializeLoopPrepend(map, requestedMungers, fails, k, active, called) ==
  IF k > Len(requestedMungers)
    THEN [mungers |-> active, called |-> called, err |-> NoErr]
    ELSE LET name == requestedMungers[k]
             munger == map[name]
         IN IF munger = NoMunger
              THEN [mungers |-> active, called |-> called,
                    err |-> NotFoundErr(name)]
              ELSE IF fails[k]
                     THEN [mungers |-> <<munger>> \o active,
                           called |-> Append(called, munger),
                           err |-> InitializeErr(munger)]
                     ELSE InitializeLoopPrepend(map, requestedMungers, fails,
                            k + 1, <<munger>> \o active,
                            Append(called, munger))

\* An InitializeMungers that appends a munger only once its Initialize has
\* succeeded.
RECURSIVE InitializeLoopInitFirst(_, _, _, _, _, _)
InitializeLoopInitFirst(map, requestedMungers, fails, k, active, called) ==
  IF k > Len(requestedMungers)
    THEN [mungers |-> active, called |-> called, err |-> NoErr]
    ELSE LET name == requestedMungers[k]
             munger == map[name]
         IN IF munger = NoMunger
              THEN [mungers |-> active, called |-> called,
                    err |-> NotFoundErr(name)]
              ELSE IF fails[k]
                     THEN [mungers |-> active,
                           called |-> Append(called, munger),
                           err |-> InitializeErr(munger)]
                     ELSE InitializeLoopInitFirst(map, requestedMungers, fails,
                            k + 1, Append(active, munger),
                            Append(called, munger))

\* An InitializeMungers that skips a munger that is already active.
RECURSIVE InitializeLoopDedup(_, _, _, _, _, _)
InitializeLoopDedup(map, requestedMungers, fails, k, active, called) ==
  IF k > Len(requestedMungers)
    THEN [mungers |-> active, called |-> called, err |-> NoErr]
    ELSE LET name == requestedMungers[k]
             munger == map[name]
         IN IF munger = NoMunger
              THEN [mungers |-> active, called |-> called,
                    err |-> NotFoundErr(name)]
              ELSE IF \E j \in DOMAIN active : active[j] = munger
                     THEN InitializeLoopDedup(map, requestedMungers, fails,
                            k + 1, active, called)
              ELSE IF fails[k]
                     THEN [mungers |-> Append(active, munger),
                           called |-> Append(called, munger),
                           err |-> InitializeErr(munger)]
                     ELSE InitializeLoopDedup(map, requestedMungers, fails,
                            k + 1, Append(active, munger),
                            Append(called, munger))

\* The loop of InitializeMungers from position k on. fails[k] says whether the
\* Initialize call made at position k returns an error. Yields the active
\* list, the Initialize calls made and the returned error.
RECURSIVE InitializeLoop(_, _, _, _, _, _)
InitializeLoop(map, requestedMungers, fails, k, active, called) ==
  IF k > Len(requestedMungers)
    THEN [mungers |-> active, called |-> called, err |-> NoErr]
    ELSE LET name == requestedMungers[k]
             munger == map[name]
         IN IF munger = NoMunger
              THEN [mungers |-> active, called |-> called,
                    err |-> NotFoundErr(name)]
              ELSE IF fails[k]
                     THEN [mungers |-> Append(active, munger),
                           called |-> Append(called, munger),
                           err |-> InitializeErr(munger)]
                     ELSE InitializeLoop(map, requestedMungers, fails, k + 1,
                                         Append(active, munger),
                                         Append(called, munger))

\* An EachLoop that runs every munger and returns the last error it saw.
RECURSIVE EachLoopFromKeepGoing(_, _, _, _)
EachLoopFromKeepGoing(active, fails, k, called) ==
  IF k > Len(active)
    THEN [called |-> called, err |-> NoErr]
    ELSE LET rest == EachLoopFromKeepGoing(active, fails, k + 1,
                                           Append(called, active[k]))
         IN IF fails[k] /\ rest.err = NoErr
              THEN [rest EXCEPT !.err = EachLoopErr(active[k])]
              ELSE rest

\* The loop of EachLoop from position k on: the EachLoop calls made and the
\* returned error.
RECURSIVE EachLoopFrom(_, _, _, _)
EachLoopFrom(active, fails, k, called) ==
  IF k > Len(active)
    THEN [called |-> called, err |-> NoErr]
    ELSE IF fails[k]
           THEN [called |-> Append(called, active[k]),
                 err |-> EachLoopErr(active[k])]
           ELSE EachLoopFrom(active, fails, k + 1, Append(called, active[k]))

\* ------------------------------------------------------------- MungeIssue
Terminal == {"returned", "panicked"}
\* glog.Fatalf has ended the process: the last call was a RegisterMungerOrDie
\* whose RegisterMunger returned an error (lines 104-106).
Exited == last.op = "RegisterMungerOrDie" /\ last.err # NoErr
\* The process is alive: no panic has brought it down and it has not exited.
Alive == (\A i \in Items : pc[i] # "panicked") /\ ~Exited
\* No MungeIssue call is between its entry and its return.
Quiet == \A i \in Items : pc[i] = "idle"

FreshObj == [PR |-> NilPR, Commits |-> "nil", Events |-> "nil"]

\* A MungeIssue without the merged check of lines 119-122.
AfterFirstGetPRNoMergedCheck(o, r) ==
  IF r.err # NoErr
    THEN [pc |-> "returned", obj |-> o, ret |-> NoErr]
  ELSE IF r.pr = NilPR
    THEN [pc |-> "panicked", obj |-> o, ret |-> Panic]
  ELSE IF r.pr.Mergeable = "nil"
    THEN [pc |-> "Sleep", obj |-> [o EXCEPT !.PR = r.pr], ret |-> NoRet]
  ELSE [pc |-> "GetFilledCommits", obj |-> [o EXCEPT !.PR = r.pr], ret |-> NoRet]

\* A MungeIssue that hands the first lookup's error to its caller.
AfterFirstGetPRPropagate(o, r) ==
  IF r.err # NoErr
    THEN [pc |-> "returned", obj |-> o, ret |-> r.err]
  ELSE IF r.pr = NilPR
    THEN [pc |-> "panicked", obj |-> o, ret |-> Panic]
  ELSE IF r.pr.Merged = "true"
    THEN [pc |-> "returned", obj |-> o, ret |-> NoErr]
  ELSE IF r.pr.Mergeable = "nil"
    THEN [pc |-> "Sleep", obj |-> [o EXCEPT !.PR = r.pr], ret |-> NoRet]
  ELSE [pc |-> "GetFilledCommits", obj |-> [o EXCEPT !.PR = r.pr], ret |-> NoRet]

\* MungeIssue from the first GetPR result up to the next external call
\* (lines 110-126): [pc, obj, ret].
AfterFirstGetPR(o, r) ==
  IF r.err # NoErr
    THEN [pc |-> "returned", obj |-> o, ret |-> NoErr]
  ELSE IF r.pr = NilPR
    THEN [pc |-> "panicked", obj |-> o, ret |-> Panic]
  ELSE IF r.pr.Merged = "true"
    THEN [pc |-> "returned", obj |-> o, ret |-> NoErr]
  ELSE IF r.pr.Mergeable = "nil"
    THEN [pc |-> "Sleep", obj |-> [o EXCEPT !.PR = r.pr], ret |-> NoRet]
  ELSE [pc |-> "GetFilledCommits", obj |-> [o EXCEPT !.PR = r.pr], ret |-> NoRet]

\* A MungeIssue that ignores the outcome of the re-fetch altogether.
AfterSecondGetPRIgnore(r) ==
  [pc |-> "GetFilledCommits", ret |-> NoRet]

\* A MungeIssue that waits again while mergeability stays unknown.
AfterSecondGetPRRetry(r) ==
  IF r.err # NoErr
    THEN [pc |-> "returned", ret |-> r.err]
  ELSE IF r.pr = NilPR
    THEN [pc |-> "panicked", ret |-> Panic]
  ELSE IF r.pr.Mergeable = "nil"
    THEN [pc |-> "Sleep", ret |-> NoRet]
  ELSE [pc |-> "GetFilledCommits", ret |-> NoRet]

\* MungeIssue from the re-fetch result up to the next external call
\* (lines 128-135): [pc, ret].
AfterSecondGetPR(r) ==
  IF r.err # NoErr
    THEN [pc |-> "returned", ret |-> r.err]
  ELSE IF r.pr = NilPR
    THEN [pc |-> "panicked", ret |-> Panic]
  ELSE [pc |-> "GetFilledCommits", ret |-> NoRet]

\* ------------------------------------------------------------------ Init
Init ==
  /\ mungerMap = [n \in Names |-> NoMunger]
  /\ mungers = <<>>
  /\ last = [op |-> "none", munger |-> NoMunger, req |-> <<>>,
             fails |-> <<>>, called |-> <<>>, err |-> NoErr,
             mapBefore |-> [n \in Names |-> NoMunger], mungersBefore |-> <<>>]
  /\ pc = [i \in Items |-> "idle"]
  /\ pr = [i \in Items |-> NilPR]
  /\ err = [i \in Items |-> NoErr]
  /\ obj = [i \in Items |-> FreshObj]
  /\ idx = [i \in Items |-> 0]
  /\ ret = [i \in Items |-> NoRet]
  /\ fetched = [i \in Items |-> <<>>]
  /\ trace = [i \in Items |-> <<>>]
  /\ enriched = [i \in Items |-> <<>>]
  /\ okRun = [ok |-> TRUE, requests |-> <<>>, initialized |-> <<>>]

\* --------------------------------------------------------------- actions
\* The registry calls are made by one goroutine while no MungeIssue call is
\* under way; a panic ends the process.
SeqUpTo(S, n) == UNION {[1..k -> S] : k \in 0..n}

\* RegisterMunger(munger), lines 93-100.
RegisterMunger(munger) ==
  /\ Alive /\ Quiet
  /\ LET r == RegisterResult(mungerMap, munger)
     IN /\ mungerMap' = r.map
        /\ last' = [op |-> "RegisterMunger", munger |-> munger, req |-> <<>>,
                    fails |-> <<>>, called |-> <<>>, err |-> r.err,
                    mapBefore |-> mungerMap, mungersBefore |-> mungers]
  /\ UNCHANGED <<mungers, okRun, calls>>

\* RegisterMungerOrDie(munger), lines 103-107: RegisterMunger, and
\* glog.Fatalf, which ends the process, when that returns an error.
RegisterMungerOrDie(munger) ==
  /\ Alive /\ Quiet
  /\ LET r == RegisterResult(mungerMap, munger)
     IN /\ mungerMap' = r.map
        /\ last' = [op |-> "RegisterMungerOrDie", munger |-> munger,
                    req |-> <<>>, fails |-> <<>>, called |-> <<>>,
                    err |-> r.err, mapBefore |-> mungerMap,
                    mungersBefore |-> mungers]
  /\ UNCHANGED <<mungers, okRun, calls>>

\* InitializeMungers(requestedMungers, config), lines 66-78. fails is what
\* each Initialize call would return at each position.
InitializeMungers(requestedMungers, fails) ==
  /\ Alive /\ Quiet
  /\ Len(mungers) + Len(requestedMungers) <= MaxActive
  /\ LET r == InitializeLoop(mungerMap, requestedMungers, fails, 1, mungers, <<>>)
     IN /\ mungers' = r.mungers
        /\ last' = [op |-> "InitializeMungers", munger |-> NoMunger,
                    req |-> requestedMungers, fails |-> fails,
                    called |-> r.called,
                    err |-> r.err, mapBefore |-> mungerMap,
                    mungersBefore |-> mungers]
        /\ okRun' = IF okRun.ok /\ r.err = NoErr
                       THEN [ok |-> TRUE,
                             requests |-> okRun.requests \o requestedMungers,
                             initialized |-> okRun.initialized \o r.called]
                       ELSE [ok |-> FALSE, requests |-> <<>>,
                             initialized |-> <<>>]
  /\ UNCHANGED <<mungerMap, calls>>

\* An EachLoop that takes the failing munger, and those after it, off the
\* active list.
EachLoopDropsFailed(fails) ==
  /\ Alive /\ Quiet
  /\ LET r == EachLoopFrom(mungers, fails, 1, <<>>)
     IN /\ last' = [op |-> "EachLoop", munger |-> NoMunger, req |-> <<>>,
                    fails |-> fails, called |-> r.called, err |-> r.err,
                    mapBefore |-> mungerMap, mungersBefore |-> mungers]
        /\ mungers' = IF r.err = NoErr THEN mungers
                      ELSE SubSeq(mungers, 1, Len(r.called) - 1)
  /\ UNCHANGED <<mungerMap, okRun, calls>>

\* EachLoop(config), lines 82-89. fails is what each munger's EachLoop would
\* return at each position of the active list.
EachLoop(fails) ==
  /\ Alive /\ Quiet
  /\ LET r == EachLoopFrom(mungers, fails, 1, <<>>)
     IN last' = [op |-> "EachLoop", munger |-> NoMunger, req |-> <<>>,
                 fails |-> fails, called |-> r.called, err |-> r.err, mapBefore |-> mungerMap,
                 mungersBefore |-> mungers]
  /\ UNCHANGED <<mungerMap, mungers, okRun, calls>>

\* The orders in which a range over the map can yield the mungers in S.
Orderings(S) ==
  {out \in [1..Cardinality(S) -> S] :
     \A j, k \in DOMAIN out : out[j] = out[k] => j = k}

\* A call of GetAllMungers(), lines 50-56, returning out.
CallGetAllMungers(out) ==
  /\ Alive /\ Quiet
  /\ out \in Orderings(GetAllMungers)
  /\ last' = [op |-> "GetAllMungers", munger |-> NoMunger, req |-> <<>>,
              fails |-> <<>>, called |-> out, err |-> NoErr,
              mapBefore |-> mungerMap, mungersBefore |-> mungers]
  /\ UNCHANGED <<mungerMap, mungers, okRun, calls>>

\* A call of GetActiveMungers(), lines 60-62.
CallGetActiveMungers ==
  /\ Alive /\ Quiet
  /\ last' = [op |-> "GetActiveMungers", munger |-> NoMunger, req |-> <<>>,
              fails |-> <<>>, called |-> GetActiveMungers, err |-> NoErr,
              mapBefore |-> mungerMap, mungersBefore |-> mungers]
  /\ UNCHANGED <<mungerMap, mungers, okRun, calls>>

\* MungeIssue entry and first config.GetPR(obj), lines 109-126, on a fresh
\* item.
MungeIssueEnter(i, r) ==
  /\ Alive /\ pc[i] = "idle"
  /\ LET a == AfterFirstGetPR(FreshObj, r)
     IN /\ pc' = [pc EXCEPT ![i] = a.pc]
        /\ obj' = [obj EXCEPT ![i] = a.obj]
        /\ ret' = [ret EXCEPT ![i] = a.ret]
  /\ pr' = [pr EXCEPT ![i] = r.pr]
  /\ err' = [err EXCEPT ![i] = r.err]
  /\ fetched' = [fetched EXCEPT ![i] = <<r>>]
  /\ trace' = [trace EXCEPT ![i] = <<Call("GetPR")>>]
  /\ idx' = [idx EXCEPT ![i] = 0]
  /\ last' = [op |-> "MungeIssue", munger |-> NoMunger, req |-> <<>>,
              fails |-> <<>>, called |-> <<>>, err |-> NoErr, mapBefore |-> mungerMap,
              mungersBefore |-> mungers]
  /\ enriched' = [enriched EXCEPT ![i] = <<>>]
  /\ UNCHANGED <<mungerMap, mungers, okRun>>

\* The same, by a caller that makes one call at a time.
MungeIssueGetPR(i, r) ==
  /\ Quiet
  /\ MungeIssueEnter(i, r)

\* time.Sleep(2 * time.Second), line 127.
Sleep(i) ==
  /\ Alive /\ pc[i] = "Sleep"
  /\ pc' = [pc EXCEPT ![i] = "GetPR"]
  /\ trace' = [trace EXCEPT ![i] = Append(@, Call("Sleep"))]
  /\ UNCHANGED <<registry, pr, err, obj, idx, ret, fetched, enriched>>

\* A re-fetch that attaches the pull request it got to the item.
GetPRAgainStores(i, r) ==
  /\ Alive /\ pc[i] = "GetPR"
  /\ LET a == AfterSecondGetPR(r)
     IN /\ pc' = [pc EXCEPT ![i] = a.pc]
        /\ ret' = [ret EXCEPT ![i] = a.ret]
  /\ pr' = [pr EXCEPT ![i] = r.pr]
  /\ err' = [err EXCEPT ![i] = r.err]
  /\ obj' = [obj EXCEPT ![i].PR = IF r.pr # NilPR THEN r.pr ELSE @]
  /\ fetched' = [fetched EXCEPT ![i] = Append(@, r)]
  /\ trace' = [trace EXCEPT ![i] = Append(@, Call("GetPR"))]
  /\ UNCHANGED <<registry, idx, enriched>>

\* The re-fetch pr, err = config.GetPR(obj), lines 128-135.
GetPRAgain(i, r) ==
  /\ Alive /\ pc[i] = "GetPR"
  /\ LET a == AfterSecondGetPR(r)
     IN /\ pc' = [pc EXCEPT ![i] = a.pc]
        /\ ret' = [ret EXCEPT ![i] = a.ret]
  /\ pr' = [pr EXCEPT ![i] = r.pr]
  /\ err' = [err EXCEPT ![i] = r.err]
  /\ fetched' = [fetched EXCEPT ![i] = Append(@, r)]
  /\ trace' = [trace EXCEPT ![i] = Append(@, Call("GetPR"))]
  /\ UNCHANGED <<registry, obj, idx, enriched>>

\* A GetFilledCommits step that attaches the commits to every item in flight,
\* as it would were the item state shared between calls.
GetFilledCommitsSharedObj(i, e) ==
  /\ Alive /\ pc[i] = "GetFilledCommits"
  /\ err' = [err EXCEPT ![i] = e]
  /\ trace' = [trace EXCEPT ![i] = Append(@, Call("GetFilledCommits"))]
  /\ enriched' = [enriched EXCEPT ![i] = Append(@, e)]
  /\ IF e # NoErr
       THEN /\ pc' = [pc EXCEPT ![i] = "returned"]
            /\ ret' = [ret EXCEPT ![i] = e]
            /\ UNCHANGED obj
       ELSE /\ pc' = [pc EXCEPT ![i] = "GetAllEventsForPR"]
            /\ obj' = [j \in Items |->
                         IF pc[j] = "idle" THEN obj[j]
                         ELSE [obj[j] EXCEPT !.Commits = "commits"]]
            /\ UNCHANGED ret
  /\ UNCHANGED <<registry, pr, idx, fetched>>

\* A GetFilledCommits step whose error is not checked.
GetFilledCommitsUnchecked(i, e) ==
  /\ Alive /\ pc[i] = "GetFilledCommits"
  /\ err' = [err EXCEPT ![i] = e]
  /\ trace' = [trace EXCEPT ![i] = Append(@, Call("GetFilledCommits"))]
  /\ enriched' = [enriched EXCEPT ![i] = Append(@, e)]
  /\ pc' = [pc EXCEPT ![i] = "GetAllEventsForPR"]
  /\ obj' = [obj EXCEPT ![i].Commits = IF e = NoErr THEN "commits" ELSE "nil"]
  /\ UNCHANGED <<registry, pr, idx, fetched, ret>>

\* commits, err := config.GetFilledCommits(obj), lines 137-141.
GetFilledCommits(i, e) ==
  /\ Alive /\ pc[i] = "GetFilledCommits"
  /\ err' = [err EXCEPT ![i] = e]
  /\ trace' = [trace EXCEPT ![i] = Append(@, Call("GetFilledCommits"))]
  /\ enriched' = [enriched EXCEPT ![i] = Append(@, e)]
  /\ IF e # NoErr
       THEN /\ pc' = [pc EXCEPT ![i] = "returned"]
            /\ ret' = [ret EXCEPT ![i] = e]
            /\ UNCHANGED obj
       ELSE /\ pc' = [pc EXCEPT ![i] = "GetAllEventsForPR"]
            /\ obj' = [obj EXCEPT ![i].Commits = "commits"]
            /\ UNCHANGED ret
  /\ UNCHANGED <<registry, pr, idx, fetched>>

\* A GetAllEventsForPR step that attaches the events before looking at the
\* error.
GetAllEventsForPRStoresAnyway(i, e) ==
  /\ Alive /\ pc[i] = "GetAllEventsForPR"
  /\ err' = [err EXCEPT ![i] = e]
  /\ trace' = [trace EXCEPT ![i] = Append(@, Call("GetAllEventsForPR"))]
  /\ enriched' = [enriched EXCEPT ![i] = Append(@, e)]
  /\ obj' = [obj EXCEPT ![i].Events = "events"]
  /\ IF e # NoErr
       THEN /\ pc' = [pc EXCEPT ![i] = "returned"]
            /\ ret' = [ret EXCEPT ![i] = e]
            /\ UNCHANGED idx
       ELSE /\ idx' = [idx EXCEPT ![i] = 1]
            /\ IF Len(mungers) = 0
                 THEN /\ pc' = [pc EXCEPT ![i] = "returned"]
                      /\ ret' = [ret EXCEPT ![i] = NoErr]
                 ELSE /\ pc' = [pc EXCEPT ![i] = "MungePullRequest"]
                      /\ UNCHANGED ret
  /\ UNCHANGED <<registry, pr, fetched>>

\* A GetAllEventsForPR step whose error is not checked.
GetAllEventsForPRUnchecked(i, e) ==
  /\ Alive /\ pc[i] = "GetAllEventsForPR"
  /\ err' = [err EXCEPT ![i] = e]
  /\ trace' = [trace EXCEPT ![i] = Append(@, Call("GetAllEventsForPR"))]
  /\ enriched' = [enriched EXCEPT ![i] = Append(@, e)]
  /\ obj' = [obj EXCEPT ![i].Events = IF e = NoErr THEN "events" ELSE "nil"]
  /\ idx' = [idx EXCEPT ![i] = 1]
  /\ IF Len(mungers) = 0
       THEN /\ pc' = [pc EXCEPT ![i] = "returned"]
            /\ ret' = [ret EXCEPT ![i] = NoErr]
       ELSE /\ pc' = [pc EXCEPT ![i] = "MungePullRequest"]
            /\ UNCHANGED ret
  /\ UNCHANGED <<registry, pr, fetched>>

\* events, err := config.GetAllEventsForPR(obj), lines 143-149, up to the
\* first iteration of the range loop (or its end when mungers is empty).
GetAllEventsForPR(i, e) ==
  /\ Alive /\ pc[i] = "GetAllEventsForPR"
  /\ err' = [err EXCEPT ![i] = e]
  /\ trace' = [trace EXCEPT ![i] = Append(@, Call("GetAllEventsForPR"))]
  /\ enriched' = [enriched EXCEPT ![i] = Append(@, e)]
  /\ IF e # NoErr
       THEN /\ pc' = [pc EXCEPT ![i] = "returned"]
            /\ ret' = [ret EXCEPT ![i] = e]
            /\ UNCHANGED <<obj, idx>>
       ELSE /\ obj' = [obj EXCEPT ![i].Events = "events"]
            /\ idx' = [idx EXCEPT ![i] = 1]
            /\ IF Len(mungers) = 0
                 THEN /\ pc' = [pc EXCEPT ![i] = "returned"]
                      /\ ret' = [ret EXCEPT ![i] = NoErr]
                 ELSE /\ pc' = [pc EXCEPT ![i] = "MungePullRequest"]
                      /\ UNCHANGED ret
  /\ UNCHANGED <<registry, pr, fetched>>

\* A range loop that stops one munger short.
MungePullRequestStopsShort(i) ==
  /\ Alive /\ pc[i] = "MungePullRequest"
  /\ trace' = [trace EXCEPT ![i] = Append(@, MungeCall(mungers[idx[i]]))]
  /\ idx' = [idx EXCEPT ![i] = @ + 1]
  /\ IF idx[i] + 1 >= Len(mungers)
       THEN /\ pc' = [pc EXCEPT ![i] = "returned"]
            /\ ret' = [ret EXCEPT ![i] = NoErr]
       ELSE UNCHANGED <<pc, ret>>
  /\ UNCHANGED <<registry, pr, err, obj, fetched, enriched>>

\* One iteration of the range loop: munger.MungePullRequest(config, obj),
\* lines 149-152; after the last one MungeIssue returns nil.
MungePullRequest(i) ==
  /\ Alive /\ pc[i] = "MungePullRequest"
  /\ trace' = [trace EXCEPT ![i] = Append(@, MungeCall(mungers[idx[i]]))]
  /\ idx' = [idx EXCEPT ![i] = @ + 1]
  /\ IF idx[i] >= Len(mungers)
       THEN /\ pc' = [pc EXCEPT ![i] = "returned"]
            /\ ret' = [ret EXCEPT ![i] = NoErr]
       ELSE UNCHANGED <<pc, ret>>
  /\ UNCHANGED <<registry, pr, err, obj, fetched, enriched>>

\* The caller takes the result and drops the item.
Return(i) ==
  /\ pc[i] = "returned"
  /\ pc' = [pc EXCEPT ![i] = "idle"]
  /\ pr' = [pr EXCEPT ![i] = NilPR]
  /\ err' = [err EXCEPT ![i] = NoErr]
  /\ obj' = [obj EXCEPT ![i] = FreshObj]
  /\ idx' = [idx EXCEPT ![i] = 0]
  /\ ret' = [ret EXCEPT ![i] = NoRet]
  /\ fetched' = [fetched EXCEPT ![i] = <<>>]
  /\ trace' = [trace EXCEPT ![i] = <<>>]
  /\ enriched' = [enriched EXCEPT ![i] = <<>>]
  /\ UNCHANGED registry

Next ==
  \/ \E munger \in PRMunger : RegisterMunger(munger)
  \/ \E munger \in PRMunger : RegisterMungerOrDie(munger)
  \/ \E requestedMungers \in SeqUpTo(Names, MaxReq) :
       \E fails \in [1..Len(requestedMungers) -> BOOLEAN] :
         InitializeMungers(requestedMungers, fails)
  \/ \E fails \in [1..Len(mungers) -> BOOLEAN] : EachLoop(fails)
  \/ \E out \in SeqUpTo(PRMunger, Cardinality(Names)) : CallGetAllMungers(out)
  \/ CallGetActiveMungers
  \/ \E i \in Items, r \in GetPRResult : MungeIssueGetPR(i, r)
  \/ \E i \in Items : Sleep(i)
  \/ \E i \in Items, r \in GetPRResult : GetPRAgain(i, r)
  \/ \E i \in Items, e \in {NoErr, GetFilledCommitsErr} : GetFilledCommits(i, e)
  \/ \E i \in Items, e \in {NoErr, GetAllEventsForPRErr} : GetAllEventsForPR(i, e)
  \/ \E i \in Items : MungePullRequest(i)
  \/ \E i \in Items : Return(i)

Spec == Init /\ [][Next]_vars

\* ------------------------------------------------- concurrent MungeIssue
\* Registration and activation are over: every name is registered and the
\* active list is one of a few lists of up to MaxActive mungers.
Registered == [n \in Names |-> [name |-> n, impl |-> 1]]
ActiveLists ==
  {[j \in 1..n |-> IF j % 2 = 1 THEN Registered["a"] ELSE Registered["b"]] :
     n \in 0..MaxActive}

InitConc ==
  /\ mungerMap = Registered
  /\ mungers \in ActiveLists
  /\ last = [op |-> "none", munger |-> NoMunger, req |-> <<>>,
             fails |-> <<>>, called |-> <<>>, err |-> NoErr,
             mapBefore |-> Registered, mungersBefore |-> mungers]
  /\ okRun = [ok |-> TRUE,
              requests |-> [j \in DOMAIN mungers |-> mungers[j].name],
              initialized |-> mungers]
  /\ pc = [i \in Items |-> "idle"]
  /\ pr = [i \in Items |-> NilPR]
  /\ err = [i \in Items |-> NoErr]
  /\ obj = [i \in Items |-> FreshObj]
  /\ idx = [i \in Items |-> 0]
  /\ ret = [i \in Items |-> NoRet]
  /\ fetched = [i \in Items |-> <<>>]
  /\ trace = [i \in Items |-> <<>>]
  /\ enriched = [i \in Items |-> <<>>]

\* MungeIssue calls on different items, each in its own goroutine, stepping
\* in any order.
NextConc ==
  \/ \E i \in Items, r \in GetPRResult : MungeIssueEnter(i, r)
  \/ \E i \in Items : Sleep(i)
  \/ \E i \in Items, r \in GetPRResult : GetPRAgain(i, r)
  \/ \E i \in Items, e \in {NoErr, GetFilledCommitsErr} : GetFilledCommits(i, e)
  \/ \E i \in Items, e \in {NoErr, GetAllEventsForPRErr} : GetAllEventsForPR(i, e)
  \/ \E i \in Items : MungePullRequest(i)
  \/ \E i \in Items : Return(i)

SpecConc == InitConc /\ [][NextConc]_vars

\* What one MungeIssue call run on its own yields, given the active list and
\* the answers of the remote calls it makes: f the GetPR results, en the
\* errors of the commit and event fetches.
RunAlone(active, f, en) ==
  LET a == AfterFirstGetPR(FreshObj, f[1])
      b == IF a.pc = "Sleep" THEN AfterSecondGetPR(f[2])
           ELSE [pc |-> a.pc, ret |-> a.ret]
  IN IF b.pc # "GetFilledCommits"
       THEN [ret |-> b.ret, obj |-> a.obj, munged |-> <<>>]
     ELSE IF en[1] # NoErr
       THEN [ret |-> en[1], obj |-> a.obj, munged |-> <<>>]
     ELSE IF en[2] # NoErr
       THEN [ret |-> en[2], obj |-> [a.obj EXCEPT !.Commits = "commits"],
             munged |-> <<>>]
     ELSE [ret |-> NoErr,
           obj |-> [a.obj EXCEPT !.Commits = "commits", !.Events = "events"],
           munged |-> active]

\* ---------------------------------------------------------------- claims
\* How often call c appears in a call log.
Count(log, c) == Cardinality({k \in DOMAIN log : log[k].call = c})
\* The mungers whose MungePullRequest was invoked for item i, in order.
RECURSIVE MungersIn(_)
MungersIn(log) ==
  IF log = <<>> THEN <<>>
  ELSE IF log[1].call = "MungePullRequest"
    THEN <<log[1].munger>> \o MungersIn(Tail(log))
    ELSE MungersIn(Tail(log))
Munged(i) == MungersIn(trace[i])
\* The first GetPR of item i's call has answered.
Looked(i) == Len(fetched[i]) >= 1
First(i) == fetched[i][1]
\* The first lookup succeeded with a pull request that is not merged.
Open(i) ==
  /\ Looked(i) /\ First(i).err = NoErr
  /\ First(i).pr # NilPR /\ First(i).pr.Merged # "true"
\* ... and its mergeability is not known yet.
Waits(i) == Open(i) /\ First(i).pr.Mergeable = "nil"
\* The re-fetch of item i's call has answered.
Refetched(i) == Len(fetched[i]) = 2
Second(i) == fetched[i][2]
CommitsTried(i) == Count(trace[i], "GetFilledCommits") > 0

\* C1: a first lookup that succeeds with no pull request (nil) ends the call
\* normally: it returns, with no error, and no munger is invoked.
C1_NotAPRStopsWithoutError ==
  \A i \in Items :
    (Looked(i) /\ First(i).err = NoErr /\ First(i).pr = NilPR)
      => /\ pc[i] = "returned"
         /\ ret[i] = NoErr
         /\ Munged(i) = <<>>

\* C2 as stated: after the re-fetch the call goes on to the commit fetch
\* whatever the re-fetch gave, an error included.
C2_EnrichesWhateverTheRefetch ==
  \A i \in Items :
    (Waits(i) /\ Refetched(i))
      => (pc[i] = "GetFilledCommits" \/ CommitsTried(i))

\* C2 amended: after the re-fetch the call goes on to the commit fetch when
\* the re-fetch returned a pull request, its mergeability known or not; when
\* the re-fetch failed the call returns that error and fetches nothing more.
C2_EnrichesUnlessRefetchFails ==
  \A i \in Items :
    (Waits(i) /\ Refetched(i))
      => /\ (Second(i).err = NoErr /\ Second(i).pr # NilPR)
              => (pc[i] = "GetFilledCommits" \/ CommitsTried(i))
         /\ Second(i).err # NoErr
              => /\ pc[i] = "returned"
                 /\ ret[i] = Second(i).err
                 /\ trace[i] = <<Call("GetPR"), Call("Sleep"), Call("GetPR")>>

C2_Witness ==
  \E i \in Items :
    /\ Waits(i) /\ Refetched(i)
    /\ Second(i).err = NoErr /\ Second(i).pr # NilPR
    /\ Second(i).pr.Mergeable = "nil"
    /\ CommitsTried(i)

\* The position InitializeMungers stops at for a missing name: the name there
\* is not in the table, every earlier one is and its Initialize succeeded.
StopsMissingAt(k) ==
  /\ last.op = "InitializeMungers"
  /\ k \in 1..Len(last.req)
  /\ last.mapBefore[last.req[k]] = NoMunger
  /\ \A j \in 1..(k - 1) :
       last.mapBefore[last.req[j]] # NoMunger /\ ~last.fails[j]
\* The mungers of the first n requested names.
Resolved(n) == [j \in 1..n |-> last.mapBefore[last.req[j]]]

\* C3 as stated: an unresolved name in the list leaves the active list
\* exactly as it was before the call.
C3_MissingNameLeavesActiveListAlone ==
  \A k \in 1..MaxReq :
    StopsMissingAt(k)
      => /\ last.err = NotFoundErr(last.req[k])
         /\ mungers = last.mungersBefore

\* C3 amended: when the loop reaches an unresolved name, the call returns
\* the not-found error and the active list is what it was before the call
\* followed by the mungers of the names ahead of the unresolved one; nothing
\* is appended for the unresolved name or for any name after it.
C3_MissingNameKeepsEarlierMungers ==
  \A k \in 1..MaxReq :
    StopsMissingAt(k)
      => /\ last.err = NotFoundErr(last.req[k])
         /\ mungers = last.mungersBefore \o Resolved(k - 1)

C3_Witness ==
  \E k \in 2..MaxReq :
    /\ StopsMissingAt(k)
    /\ last.mungersBefore # <<>>
    /\ mungers # last.mungersBefore

\* C4: for an item that is an eligible pull request (lookup succeeded with an
\* unmerged pull request, commits and events fetched), the finished call has
\* invoked MungePullRequest on every active munger once, in the order of the
\* active list, and returned no error.
C4_DispatchesToAllInOrder ==
  \A i \in Items :
    (Open(i) /\ obj[i].Commits # "nil" /\ obj[i].Events # "nil")
      => /\ pc[i] \in {"MungePullRequest", "returned"}
         /\ pc[i] = "MungePullRequest"
              => Munged(i) = SubSeq(mungers, 1, idx[i] - 1)
         /\ pc[i] = "returned"
              => (Munged(i) = mungers /\ ret[i] = NoErr)

C4_Witness ==
  \E i \in Items :
    /\ Open(i) /\ obj[i].Commits # "nil" /\ obj[i].Events # "nil"
    /\ pc[i] = "returned"
    /\ Len(mungers) = MaxActive
    /\ mungers[1] # mungers[2]
    /\ Munged(i) = mungers

\* C5: a failed commit fetch or event fetch ends the call with that error
\* and without any munger having been invoked.
C5_EnrichmentFailureIsReturned ==
  \A i \in Items :
    err[i] \in {GetFilledCommitsErr, GetAllEventsForPRErr}
      => /\ pc[i] = "returned"
         /\ ret[i] = err[i]
         /\ Munged(i) = <<>>

C5_Witness ==
  \E i \in Items :
    /\ err[i] = GetAllEventsForPRErr
    /\ obj[i].Commits # "nil"
    /\ mungers # <<>>
    /\ ret[i] = GetAllEventsForPRErr

\* C6: a pull request that comes back marked merged ends the call with no
\* error and without any munger having been invoked.
C6_MergedIsSkipped ==
  \A i \in Items :
    (Looked(i) /\ First(i).err = NoErr /\ First(i).pr # NilPR
       /\ First(i).pr.Merged = "true")
      => /\ pc[i] = "returned"
         /\ ret[i] = NoErr
         /\ Munged(i) = <<>>

C6_Witness ==
  \E i \in Items :
    /\ Looked(i) /\ First(i).err = NoErr /\ First(i).pr # NilPR
    /\ First(i).pr.Merged = "true"
    /\ mungers # <<>>
    /\ pc[i] = "returned"

\* C7: an error from the first lookup is swallowed: the call returns nil
\* having made no other call (no wait, no re-fetch, no commit or event fetch,
\* no munger) and having left the item as it was.
C7_LookupErrorIsSwallowed ==
  \A i \in Items :
    (Looked(i) /\ First(i).err # NoErr)
      => /\ pc[i] = "returned"
         /\ ret[i] = NoErr
         /\ trace[i] = <<Call("GetPR")>>
         /\ obj[i] = FreshObj

C7_Witness ==
  \E i \in Items :
    /\ Looked(i) /\ First(i).err = GetPRErr
    /\ mungers # <<>>
    /\ ret[i] = NoErr

\* C8: one call waits at most once and fetches the pull request at most
\* twice; past the mergeability stage it has waited once and re-fetched once
\* if the first-fetched unmerged pull request had unknown mergeability, and
\* has neither waited nor re-fetched otherwise.
C8_OneWaitOneRefetch ==
  \A i \in Items :
    /\ Count(trace[i], "Sleep") <= 1
    /\ Count(trace[i], "GetPR") <= 2
    /\ (Waits(i) /\ pc[i] \notin {"Sleep", "GetPR"})
         => /\ Count(trace[i], "Sleep") = 1
            /\ Count(trace[i], "GetPR") = 2
            /\ SubSeq(trace[i], 1, 3)
                 = <<Call("GetPR"), Call("Sleep"), Call("GetPR")>>
    /\ (Looked(i) /\ ~Waits(i))
         => /\ Count(trace[i], "Sleep") = 0
            /\ Count(trace[i], "GetPR") = 1

C8_Witness ==
  \E i \in Items :
    /\ Waits(i) /\ Refetched(i)
    /\ Second(i).err = NoErr /\ Second(i).pr # NilPR
    /\ Second(i).pr.Mergeable = "nil"
    /\ pc[i] = "returned" /\ ret[i] = NoErr
    /\ Munged(i) # <<>>

\* C9: a RegisterMunger call under a name already in the table returns the
\* duplicate error and leaves the table as it was, so the name keeps the
\* munger first registered under it; under a new name it returns no error and
\* adds exactly that entry, whether called directly or through
\* RegisterMungerOrDie. The table never holds a munger under a name that is
\* not its own.
C9_RegisterRejectsDuplicates ==
  /\ \A n \in Names : mungerMap[n] # NoMunger => mungerMap[n].name = n
  /\ last.op \in {"RegisterMunger", "RegisterMungerOrDie"}
       => IF last.mapBefore[last.munger.name] # NoMunger
            THEN /\ last.err = DuplicateErr(last.munger.name)
                 /\ mungerMap = last.mapBefore
            ELSE /\ last.err = NoErr
                 /\ mungerMap = [last.mapBefore EXCEPT
                                   ![last.munger.name] = last.munger]

C9_Witness ==
  /\ last.op = "RegisterMunger"
  /\ last.err = DuplicateErr(last.munger.name)
  /\ mungerMap[last.munger.name] # last.munger

\* C10: when the name at position k is not in the table and every earlier
\* name resolved and initialized, the call returns an error and Initialize
\* has been called for the mungers of the k-1 earlier names only: not at
\* position k and not for any name after it.
C10_NoInitializeFromMissingNameOn ==
  \A k \in 1..MaxReq :
    StopsMissingAt(k)
      => /\ last.err # NoErr
         /\ last.called = Resolved(k - 1)

C10_Witness ==
  \E k \in 1..MaxReq :
    /\ StopsMissingAt(k)
    /\ k < Len(last.req)
    /\ last.mapBefore[last.req[k + 1]] # NoMunger
    /\ last.err = NotFoundErr(last.req[k])

\* C11: after a successful InitializeMungers call on an empty active list,
\* GetActiveMungers is the registered mungers of the requested names in
\* request order, and Initialize was called once on each in that order.
C11_ActiveListIsTheRequestInOrder ==
  (last.op = "InitializeMungers" /\ last.err = NoErr
     /\ last.mungersBefore = <<>>)
    => /\ GetActiveMungers = Resolved(Len(last.req))
       /\ last.called = Resolved(Len(last.req))
       /\ \A j \in 1..Len(last.req) : GetActiveMungers[j] # NoMunger

C11_Witness ==
  /\ last.op = "InitializeMungers" /\ last.err = NoErr
  /\ last.mungersBefore = <<>>
  /\ Len(last.req) = 2
  /\ last.req[1] # last.req[2]
  /\ GetActiveMungers = <<mungerMap[last.req[1]], mungerMap[last.req[2]]>>

\* The position of the first failing EachLoop of the last cycle, 0 if none.
FirstFailure(fails) ==
  IF \E k \in DOMAIN fails : fails[k]
    THEN CHOOSE k \in DOMAIN fails : fails[k] /\ \A j \in 1..(k - 1) : ~fails[j]
    ELSE 0

\* C12: EachLoop invokes the active mungers' EachLoop in list order; at the
\* first one that errors it stops and returns that error, the later mungers
\* not invoked; with no error every munger is invoked once and nil returned.
\* After a failed cycle a further cycle can run, and runs them all again.
C12_EachLoopFailsFast ==
  last.op = "EachLoop"
    => /\ LET k == FirstFailure(last.fails)
          IN IF k = 0
               THEN last.called = mungers /\ last.err = NoErr
               ELSE /\ last.called = SubSeq(mungers, 1, k)
                    /\ last.err = EachLoopErr(mungers[k])
       /\ last.err # NoErr
            => ENABLED EachLoop([j \in 1..Len(mungers) |-> FALSE])

C12_Witness ==
  /\ last.op = "EachLoop"
  /\ Len(mungers) = MaxActive
  /\ last.err = EachLoopErr(mungers[2])
  /\ last.called = SubSeq(mungers, 1, 2)
  /\ mungers[1] # mungers[2]

Populated(i, field) == obj[i][field] # "nil"

\* C13 as stated: once the call has returned, the commit and event fields
\* are each populated exactly when the item was an eligible pull request.
C13_PopulatedIffEligible ==
  \A i \in Items :
    pc[i] = "returned"
      => /\ Populated(i, "Commits") <=> Open(i)
         /\ Populated(i, "Events") <=> Open(i)

\* C13 amended: once the call has ended, both fields are populated exactly
\* when the item was an eligible pull request and the call returned no
\* error; events are never populated without commits; commits are populated
\* without events exactly when the event fetch failed; nothing is populated
\* for an item that was not an eligible pull request.
C13_PopulatedIffEligibleAndEnriched ==
  \A i \in Items :
    pc[i] \in Terminal
      => /\ Populated(i, "Events") => Populated(i, "Commits")
         /\ Populated(i, "Commits") => Open(i)
         /\ (Populated(i, "Commits") /\ Populated(i, "Events"))
              <=> (Open(i) /\ ret[i] = NoErr)
         /\ (Populated(i, "Commits") /\ ~Populated(i, "Events"))
              <=> ret[i] = GetAllEventsForPRErr

C13_Witness ==
  \E i \in Items :
    /\ pc[i] = "returned"
    /\ Open(i)
    /\ Populated(i, "Commits") /\ ~Populated(i, "Events")

\* C14: only RegisterMunger changes the registry table and only
\* InitializeMungers changes the active list: every step that changes
\* mungerMap is a RegisterMunger step (made directly or by
\* RegisterMungerOrDie) and every step that changes mungers is an
\* InitializeMungers step, so EachLoop, MungeIssue and the two getters leave
\* both alone, and InitializeMungers leaves the table alone.
C14_SingleWriters ==
  [][/\ mungerMap' # mungerMap
          => \E munger \in PRMunger :
               RegisterMunger(munger) \/ RegisterMungerOrDie(munger)
     /\ mungers' # mungers
          => \E requestedMungers \in SeqUpTo(Names, MaxReq) :
               \E fails \in [1..Len(requestedMungers) -> BOOLEAN] :
                 InitializeMungers(requestedMungers, fails)]_vars

C14_Witness ==
  /\ last.op = "EachLoop" /\ last.err # NoErr
  /\ Len(mungers) >= 2
  /\ mungers = last.mungersBefore
  /\ mungerMap = last.mapBefore

\* Everything the model holds for item i's call.
CallState(i) ==
  <<pc[i], pr[i], err[i], obj[i], idx[i], ret[i], fetched[i], trace[i],
    enriched[i]>>

\* C15: with registration and activation over, MungeIssue calls on different
\* items interleaved step by step do not disturb each other: a step of one
\* call changes nothing of the other call, of the table or of the active
\* list, and a call that ends has the return value, the item fields and the
\* mungers invoked, in order, that it has when run on its own with the same
\* answers from the remote calls.
C15_CallsDoNotInterfere ==
  /\ [](\A i \in Items :
          pc[i] \in Terminal
            => [ret |-> ret[i], obj |-> obj[i], munged |-> Munged(i)]
                 = RunAlone(mungers, fetched[i], enriched[i]))
  /\ [][/\ UNCHANGED <<mungerMap, mungers>>
        /\ \A i, j \in Items :
             (i # j /\ CallState(i)' # CallState(i))
               => CallState(j)' = CallState(j)]_vars

C15_Witness ==
  \E i, j \in Items :
    /\ i # j
    /\ pc[i] = "MungePullRequest" /\ Munged(i) # <<>>
    /\ pc[j] = "GetAllEventsForPR"
    /\ obj[i].PR # obj[j].PR

\* The position at which InitializeMungers stops for a failed Initialize:
\* the names up to there are in the table, the Initialize calls before it
\* succeeded and the one there returned an error.
StopsFailedAt(k) ==
  /\ last.op = "InitializeMungers"
  /\ k \in 1..Len(last.req)
  /\ \A j \in 1..k : last.mapBefore[last.req[j]] # NoMunger
  /\ \A j \in 1..(k - 1) : ~last.fails[j]
  /\ last.fails[k]

\* C16: when the Initialize of the munger at position k returns an error,
\* InitializeMungers returns that error at once: Initialize has been called
\* for positions 1..k and no later one, and the active list has gained the
\* mungers of positions 1..k, the failed one included, and none after it.
C16_InitializeErrorLeavesPartialList ==
  \A k \in 1..MaxReq :
    StopsFailedAt(k)
      => /\ last.err = InitializeErr(last.mapBefore[last.req[k]])
         /\ last.called = Resolved(k)
         /\ mungers = last.mungersBefore \o Resolved(k)

C16_Witness ==
  \E k \in 1..MaxReq :
    /\ StopsFailedAt(k)
    /\ k < Len(last.req)
    /\ last.mapBefore[last.req[k + 1]] # NoMunger
    /\ last.req[k + 1] # last.req[k]
    /\ mungers[Len(mungers)] = last.mapBefore[last.req[k]]

\* Item i's call is dispatching, or has dispatched, to the mungers.
Dispatching(i) == pc[i] = "MungePullRequest" \/ Munged(i) # <<>>

\* C17: whenever a munger's MungePullRequest is being or has been invoked
\* for an item, the item carries a non-nil unmerged pull request and the
\* results of a successful commit fetch and a successful event fetch; in the
\* log of calls the commit fetch comes right before the event fetch and
\* every munger invocation comes after both.
C17_DispatchOnlyWhenEnriched ==
  \A i \in Items :
    Dispatching(i)
      => /\ obj[i].PR # NilPR /\ obj[i].PR.Merged # "true"
         /\ Populated(i, "Commits") /\ Populated(i, "Events")
         /\ enriched[i] = <<NoErr, NoErr>>
         /\ \E c \in DOMAIN trace[i] :
              /\ c + 1 \in DOMAIN trace[i]
              /\ trace[i][c] = Call("GetFilledCommits")
              /\ trace[i][c + 1] = Call("GetAllEventsForPR")
              /\ \A k \in DOMAIN trace[i] :
                   /\ k < c => trace[i][k].call \in {"GetPR", "Sleep"}
                   /\ k > c + 1 <=> trace[i][k].call = "MungePullRequest"

C17_Witness ==
  \E i \in Items :
    /\ pc[i] = "MungePullRequest"
    /\ idx[i] = 2
    /\ Len(fetched[i]) = 2

\* The terminal states of the state machine, read off a call that has ended.
NotAPR(i) == Looked(i) /\ (First(i).err # NoErr \/ First(i).pr = NilPR)
Merged(i) ==
  /\ Looked(i) /\ First(i).err = NoErr /\ First(i).pr # NilPR
  /\ First(i).pr.Merged = "true"
Dispatched(i) ==
  Open(i) /\ enriched[i] = <<NoErr, NoErr>> /\ Munged(i) = mungers
Failed(i) ==
  /\ Open(i)
  /\ enriched[i] \in {<<GetFilledCommitsErr>>, <<NoErr, GetAllEventsForPRErr>>}
  /\ ret[i] = enriched[i][Len(enriched[i])]

\* C18: a call that has ended has returned in exactly one of the terminal
\* states NotAPR, Merged, Dispatched and Failed, Failed coming only from a
\* failed commit or event fetch, and it returned an error exactly when it
\* ended in Failed.
C18_EndsInOneOfFourStates ==
  \A i \in Items :
    pc[i] \in Terminal
      => /\ pc[i] = "returned"
         /\ Cardinality({t \in {"NotAPR", "Merged", "Dispatched", "Failed"} :
              \/ t = "NotAPR" /\ NotAPR(i)
              \/ t = "Merged" /\ Merged(i)
              \/ t = "Dispatched" /\ Dispatched(i)
              \/ t = "Failed" /\ Failed(i)}) = 1
         /\ ret[i] # NoErr <=> Failed(i)

\* C19: the pull request on the item is the one the first fetch returned,
\* attached only when that pull request is not merged; the pull request of
\* the re-fetch is never attached, and on the lookup-failed and merged exits
\* the field stays as it was.
C19_ItemKeepsFirstFetchedPR ==
  \A i \in Items :
    Looked(i)
      => obj[i].PR = IF Open(i) THEN First(i).pr ELSE FreshObj.PR

C19_Witness ==
  \E i \in Items :
    /\ Waits(i) /\ Refetched(i)
    /\ Second(i).err = NoErr /\ Second(i).pr # NilPR
    /\ Second(i).pr.Mergeable = "true"
    /\ Munged(i) # <<>>
    /\ obj[i].PR.Mergeable = "nil"

\* C20: while every InitializeMungers call so far has returned nil, the
\* active list is the mungers of all the names requested, in call and
\* request order, repeats included, and Initialize has been called once per
\* entry; a cycle without error calls EachLoop once per entry and an
\* eligible item is dispatched once per entry.
C20_ActivationAppends ==
  /\ okRun.ok
       => /\ mungers = [j \in 1..Len(okRun.requests) |->
                          mungerMap[okRun.requests[j]]]
          /\ okRun.initialized = mungers
  /\ (last.op = "EachLoop" /\ last.err = NoErr) => last.called = mungers
  /\ \A i \in Items :
       (pc[i] = "returned" /\ Open(i) /\ ret[i] = NoErr)
         => Munged(i) = mungers

C20_Witness ==
  /\ okRun.ok
  /\ last.op = "InitializeMungers"
  /\ last.mungersBefore # <<>> /\ last.req # <<>>
  /\ Len(mungers) = MaxActive
  /\ \A j \in DOMAIN mungers : mungers[j] = mungers[1]

====
